---------------------------- MODULE Spec2Model ----------------------------
(***************************************************************************)
(* Model of checkPolinoms.py: the function dec_to_hex_list and the         *)
(* top-level driver that prints what it returns.                           *)
(*                                                                         *)
(* A Python string is modelled as a sequence of one-character strings.     *)
(* Characters outside ASCII are written as their code point ("U+2192" is   *)
(* the arrow glyph of line 20), one sequence element per character.        *)
(***************************************************************************)
EXTENDS Integers, Sequences

VARIABLES
    numbers,    \* the list object passed to dec_to_hex_list
    pc,         \* position of the (single) thread of control
    idx,        \* how many elements the iterator of line 7 has handed out
    num,        \* local of dec_to_hex_list (line 7)
    n,          \* local of dec_to_hex_list (line 8)
    hex_str,    \* local of dec_to_hex_list (lines 13, 16, 18)
    result,     \* local of dec_to_hex_list (line 6)
    ret,        \* the list the call expression of line 31 evaluated to
    pidx,       \* how many elements the iterator of line 31 has handed out
    line,       \* module-level loop variable of line 31
    stdout,     \* the lines written by print, oldest first
    returned    \* the value of every completed call, oldest first

vars == <<numbers, pc, idx, num, n, hex_str, result, ret, pidx, line, stdout, returned>>

locals == <<idx, num, n, hex_str, result>>
driver == <<ret, pidx, line, stdout>>

---------------------------------------------------------------------------
(* Bounds of the model. *)

MaxLen == 2
MaxCalls == 2

(* The integers the bounded inputs are drawn from: both signs, zero, the   *)
(* edges of one and two bytes, and the values the documentation mentions.  *)
Values == {-257, -256, -1, 0, 5, 27, 255, 256, 280, 283, 285, 511}

Inputs == UNION {[1..k -> Values] : k \in 0..MaxLen}

---------------------------------------------------------------------------
(* String formatting, as Python computes it. *)

Arrow == "U+2192"

DecDigit == <<"0", "1", "2", "3", "4", "5", "6", "7", "8", "9">>
HexDigitUpper == <<"0", "1", "2", "3", "4", "5", "6", "7", "8", "9",
                   "A", "B", "C", "D", "E", "F">>

RECURSIVE NatDigits(_, _, _)
(* The digits of the natural number m in the given base, most significant  *)
(* first, with no leading zero (a single "0" for zero).                    *)
NatDigits(m, base, table) ==
    IF m < base THEN <<table[m + 1]>>
    ELSE Append(NatDigits(m \div base, base, table), table[(m % base) + 1])

RECURSIVE Zeros(_)
Zeros(k) == IF k <= 0 THEN <<>> ELSE <<"0">> \o Zeros(k - 1)

(* f"{n}" *)
FormatD(m) ==
    IF m < 0 THEN <<"-">> \o NatDigits(-m, 10, DecDigit)
    ELSE NatDigits(m, 10, DecDigit)

(* f"{n:X}" *)
FormatX(m) ==
    IF m < 0 THEN <<"-">> \o NatDigits(-m, 16, HexDigitUpper)
    ELSE NatDigits(m, 16, HexDigitUpper)

(* f"{n:02X}": the sign first, then zeros up to a total width of 2 *)
Format02X(m) ==
    LET sign == IF m < 0 THEN <<"-">> ELSE <<>>
        digits == NatDigits(IF m < 0 THEN -m ELSE m, 16, HexDigitUpper)
    IN  sign \o Zeros(2 - Len(sign) - Len(digits)) \o digits

(* str.zfill(width): zeros on the left, after a leading sign *)
Zfill(s, width) ==
    IF Len(s) >= width THEN s
    ELSE IF Len(s) > 0 /\ s[1] \in {"+", "-"}
         THEN <<s[1]>> \o Zeros(width - Len(s)) \o Tail(s)
         ELSE Zeros(width - Len(s)) \o s

(* The text after the arrow in line 10. *)
NegativeText ==
    <<"U+041E", "U+0428", "U+0418", "U+0411", "U+041A", "U+0410", ":", " ",
      "U+043E", "U+0442", "U+0440", "U+0438", "U+0446", "U+0430", "U+0442",
      "U+0435", "U+043B", "U+044C", "U+043D", "U+043E", "U+0435">>

(* Faulty variants of line 8: a remainder that takes the sign of the       *)
(* dividend, and no reduction at all.                                      *)
TruncMod256(v) == IF v < 0 THEN -((-v) % 256) ELSE v % 256
NoMod256(v) == v

(* Line 8: int(num) % 256.  Python's % takes the sign of the divisor, as   *)
(* the % of Integers does for a positive divisor.                          *)
Mod256(v) == v % 256

(* Line 10: f"{n} -> ..." of the negative branch. *)
NegativeRecord(m) == FormatD(m) \o <<" ", Arrow, " ">> \o NegativeText

(* Faulty variant of lines 15-18: the rendering of line 18 in both cases. *)
HexUnpadded(m) == <<"0", "x">> \o FormatX(m)

(* Lines 15-18: the hexadecimal rendering that reaches line 20. *)
HexOf(m) ==
    IF m <= 255 THEN <<"0", "x">> \o Format02X(m)
    ELSE <<"0", "x">> \o FormatX(m)

(* Line 20: f"{n} -> {hex_str}" *)
Record(m, h) == FormatD(m) \o <<" ", Arrow, " ">> \o h

(* Lines 26-28. *)
decimal_numbers ==
    <<283, 285, 299, 301, 313, 319, 333, 351, 355, 357, 361, 369,
      375, 379, 391, 395, 397, 415, 419, 425, 433, 445, 451, 463, 471, 477,
      487, 499, 501, 505>>

---------------------------------------------------------------------------
(* The state after the module's definitions are loaded, before line 31. *)

InitRest ==
    /\ pc = "L31_call"
    /\ idx = 0 /\ num = 0 /\ n = 0 /\ hex_str = <<>> /\ result = <<>>
    /\ ret = <<>> /\ pidx = 0 /\ line = <<>> /\ stdout = <<>>
    /\ returned = <<>>

(* The function applied to any bounded list, or to the program's own. *)
Init == numbers \in Inputs \cup {decimal_numbers} /\ InitRest

(* The program as written: the argument is decimal_numbers. *)
ProgInit == numbers = decimal_numbers /\ InitRest

---------------------------------------------------------------------------
(* dec_to_hex_list, one action per statement. *)

(* Line 31 evaluates the call expression: control enters the function. *)
Call ==
    /\ pc = "L31_call"
    /\ pc' = "L6"
    /\ UNCHANGED <<numbers, locals, driver, returned>>

(* Faulty variant of line 6: the list of an earlier call is kept. *)
ResultKept ==
    /\ pc = "L6"
    /\ idx' = 0
    /\ pc' = "L7"
    /\ UNCHANGED <<numbers, result, num, n, hex_str, driver, returned>>

(* Line 6: result = [], then the for statement of line 7 makes its iterator. *)
ResultInit ==
    /\ pc = "L6"
    /\ result' = <<>>
    /\ idx' = 0
    /\ pc' = "L7"
    /\ UNCHANGED <<numbers, num, n, hex_str, driver, returned>>

(* Faulty variants of line 7: an iterator that skips every second element, *)
(* and one that consumes the list it walks.                                *)
ForNumSkips ==
    /\ pc = "L7"
    /\ IF idx < Len(numbers)
       THEN /\ num' = numbers[idx + 1]
            /\ idx' = idx + 2
            /\ pc' = "L8"
       ELSE /\ pc' = "L22"
            /\ UNCHANGED <<num, idx>>
    /\ UNCHANGED <<numbers, n, hex_str, result, driver, returned>>
ForNumPops ==
    /\ pc = "L7"
    /\ IF 0 < Len(numbers)
       THEN /\ num' = Head(numbers)
            /\ numbers' = Tail(numbers)
            /\ idx' = idx + 1
            /\ pc' = "L8"
       ELSE /\ pc' = "L22"
            /\ UNCHANGED <<num, idx, numbers>>
    /\ UNCHANGED <<n, hex_str, result, driver, returned>>

(* Line 7: the list iterator hands out numbers[idx], or the loop ends. *)
ForNum ==
    /\ pc = "L7"
    /\ IF idx < Len(numbers)
       THEN /\ num' = numbers[idx + 1]
            /\ idx' = idx + 1
            /\ pc' = "L8"
       ELSE /\ pc' = "L22"
            /\ UNCHANGED <<num, idx>>
    /\ UNCHANGED <<numbers, n, hex_str, result, driver, returned>>

(* Line 8: n = int(num) % 256 *)
Reduce ==
    /\ pc = "L8"
    /\ n' = Mod256(num)
    /\ pc' = "L9"
    /\ UNCHANGED <<numbers, idx, num, hex_str, result, driver, returned>>

(* Lines 9-11: if n < 0: append the negative record and continue *)
NegativeGuard ==
    /\ pc = "L9"
    /\ IF n < 0
       THEN /\ result' = Append(result, NegativeRecord(n))
            /\ pc' = "L7"
       ELSE /\ pc' = "L13"
            /\ UNCHANGED result
    /\ UNCHANGED <<numbers, idx, num, n, hex_str, driver, returned>>

(* Line 13: hex_str = f"0x{n:X}".zfill(4) *)
FirstHex ==
    /\ pc = "L13"
    /\ hex_str' = Zfill(<<"0", "x">> \o FormatX(n), 4)
    /\ pc' = "L15"
    /\ UNCHANGED <<numbers, idx, num, n, result, driver, returned>>

(* Lines 15-18: if n <= 255: two digits, else as many as needed *)
SecondHex ==
    /\ pc = "L15"
    /\ hex_str' = HexOf(n)
    /\ pc' = "L20"
    /\ UNCHANGED <<numbers, idx, num, n, result, driver, returned>>

(* Line 20: result.append(f"{n} -> {hex_str}") *)
AppendRecord ==
    /\ pc = "L20"
    /\ result' = Append(result, Record(n, hex_str))
    /\ pc' = "L7"
    /\ UNCHANGED <<numbers, idx, num, n, hex_str, driver, returned>>

(* Line 22: return result; the driver's for statement takes the list. *)
Return ==
    /\ pc = "L22"
    /\ ret' = result
    /\ returned' = Append(returned, result)
    /\ pidx' = 0
    /\ pc' = "L31"
    /\ UNCHANGED <<numbers, locals, line, stdout>>

---------------------------------------------------------------------------
(* The driver, lines 31-32. *)

(* Faulty variant of line 31: the loop ends one element early. *)
ForLineStopsEarly ==
    /\ pc = "L31"
    /\ IF pidx + 1 < Len(ret)
       THEN /\ line' = ret[pidx + 1]
            /\ pidx' = pidx + 1
            /\ pc' = "L32"
       ELSE /\ pc' = "done"
            /\ UNCHANGED <<line, pidx>>
    /\ UNCHANGED <<numbers, locals, ret, stdout, returned>>

(* Line 31: the iterator over the returned list hands out the next line. *)
ForLine ==
    /\ pc = "L31"
    /\ IF pidx < Len(ret)
       THEN /\ line' = ret[pidx + 1]
            /\ pidx' = pidx + 1
            /\ pc' = "L32"
       ELSE /\ pc' = "done"
            /\ UNCHANGED <<line, pidx>>
    /\ UNCHANGED <<numbers, locals, ret, stdout, returned>>

(* Faulty variant of line 32: the line goes in front of the output. *)
PrintLineFirst ==
    /\ pc = "L32"
    /\ stdout' = <<line>> \o stdout
    /\ pc' = "L31"
    /\ UNCHANGED <<numbers, locals, ret, pidx, line, returned>>

(* Line 32: print(line) *)
PrintLine ==
    /\ pc = "L32"
    /\ stdout' = Append(stdout, line)
    /\ pc' = "L31"
    /\ UNCHANGED <<numbers, locals, ret, pidx, line, returned>>

(* A caller that evaluates the call expression of line 31 once more, on    *)
(* the same list object, after the first run of the loop has ended.        *)
CallAgain ==
    /\ pc = "done"
    /\ Len(returned) < MaxCalls
    /\ pc' = "L6"
    /\ UNCHANGED <<numbers, locals, driver, returned>>

---------------------------------------------------------------------------
(* Specifications. *)

Next ==
    \/ Call
    \/ ResultInit
    \/ ForNum
    \/ Reduce
    \/ NegativeGuard
    \/ FirstHex
    \/ SecondHex
    \/ AppendRecord
    \/ Return
    \/ ForLine
    \/ PrintLine

(* One call, on any bounded list. *)
Spec == Init /\ [][Next]_vars

(* Repeated calls on the same list. *)
AgainNext == Next \/ CallAgain
AgainSpec == Init /\ [][AgainNext]_vars

(* The program as written.  Its only thread always takes its next step. *)
ProgSpec == ProgInit /\ [][Next]_vars /\ WF_vars(Next)

---------------------------------------------------------------------------
(* What the specification says a display record is, written independently *)
(* of the operators above: the floor remainder by its defining equation,   *)
(* the digits by table lookup.                                             *)

QRange == -8..8

IsFloorMod256(v, r) == r \in 0..255 /\ \E q \in QRange : v = 256 * q + r

FloorMod256(v) == CHOOSE r \in 0..255 : IsFloorMod256(v, r)

SpecDecimal(m) ==
    IF m < 10 THEN <<DecDigit[m + 1]>>
    ELSE IF m < 100 THEN <<DecDigit[(m \div 10) + 1], DecDigit[(m % 10) + 1]>>
    ELSE <<DecDigit[(m \div 100) + 1], DecDigit[((m \div 10) % 10) + 1],
           DecDigit[(m % 10) + 1]>>

SpecRecord(v) ==
    LET m == FloorMod256(v)
    IN  SpecDecimal(m) \o <<" ", Arrow, " ", "0", "x",
                             HexDigitUpper[(m \div 16) + 1],
                             HexDigitUpper[(m % 16) + 1]>>

HasArrow(rec) == \E k \in 1..Len(rec) : rec[k] = Arrow

ArrowPos(rec) == CHOOSE k \in 1..Len(rec) :
                    rec[k] = Arrow /\ \A j \in 1..(k - 1) : rec[j] # Arrow

(* The text before the arrow, without the blank that separates them. *)
DecimalPortion(rec) == SubSeq(rec, 1, ArrowPos(rec) - 2)

(* The text after the arrow and its blank. *)
HexPortion(rec) == SubSeq(rec, ArrowPos(rec) + 2, Len(rec))

IsDecimalText(s) ==
    /\ Len(s) >= 1
    /\ \A k \in 1..Len(s) : \E d \in 1..10 : DecDigit[d] = s[k]

RECURSIVE ParseDecimal(_)
ParseDecimal(s) ==
    IF Len(s) = 0 THEN 0
    ELSE 10 * ParseDecimal(SubSeq(s, 1, Len(s) - 1))
         + (CHOOSE d \in 0..9 : DecDigit[d + 1] = s[Len(s)])

(* Calls that have returned. *)
Calls == 1..Len(returned)

---------------------------------------------------------------------------
Processed ==
    IF pc \in {"L8", "L9", "L13", "L15", "L20"} THEN idx - 1 ELSE idx

(* C3: the output has the length and the order of the input: after the     *)
(* loop has processed k elements, result holds exactly k records, the i-th *)
(* being the display record of the i-th input; the returned list has one   *)
(* record per input element.                                               *)
C3_OrderPreserved ==
    /\ pc \in {"L7", "L8", "L9", "L13", "L15", "L20", "L22"} =>
          /\ Len(result) = Processed
          /\ Processed <= Len(numbers)
          /\ \A i \in 1..Len(result) : result[i] = SpecRecord(numbers[i])
    /\ pc = "L22" => Len(result) = Len(numbers)
    /\ \A c \in Calls :
          /\ Len(returned[c]) = Len(numbers)
          /\ \A i \in 1..Len(numbers) : returned[c][i] = SpecRecord(numbers[i])

(* The loop is in its second pass over [283, -1], with the record of 283   *)
(* alone in result.                                                        *)
C3_Witness ==
    /\ numbers = <<283, -1>>
    /\ pc = "L9"
    /\ idx = 2
    /\ result = << <<"2", "7", " ", Arrow, " ", "0", "x", "1", "B">> >>

(* The two-digit, non-error shape: a numeral, the arrow, 0x and two        *)
(* uppercase hexadecimal digits.                                           *)
IsTwoDigitRecord(rec) ==
    /\ HasArrow(rec)
    /\ IsDecimalText(DecimalPortion(rec))
    /\ rec[ArrowPos(rec) - 1] = " "
    /\ Len(HexPortion(rec)) = 4
    /\ SubSeq(rec, ArrowPos(rec) + 1, ArrowPos(rec) + 3) = <<" ", "0", "x">>
    /\ \A k \in (Len(rec) - 1)..Len(rec) :
          \E h \in 1..16 : HexDigitUpper[h] = rec[k]

C5_ProgramPrintsThirtyLines ==
    /\ [](Len(stdout) <= 30)
    /\ <>[](/\ pc = "done"
            /\ Len(stdout) = 30
            /\ \A i \in 1..30 : stdout[i] = SpecRecord(decimal_numbers[i]))

(* The program has ended with 30 lines, the first "27 -> 0x1B" (for 283)   *)
(* and the last "249 -> 0xF9" (for 505).                                   *)
C5_Witness ==
    /\ numbers = decimal_numbers
    /\ pc = "done"
    /\ Len(stdout) = 30
    /\ stdout[1] = <<"2", "7", " ", Arrow, " ", "0", "x", "1", "B">>
    /\ stdout[30] = <<"2", "4", "9", " ", Arrow, " ", "0", "x", "F", "9">>

(* The record the docstring of dec_to_hex_list describes. *)
DocstringRecord(v) ==
    NatDigits(v, 10, DecDigit) \o <<" ", Arrow, " ", "0", "x">>
        \o (IF v < 16 THEN <<"0">> ELSE <<>>)
        \o NatDigits(v, 16, HexDigitUpper)

(* C6: as the docstring states, the string returned for a number is the    *)
(* number itself, the arrow, and the full hexadecimal rendering of the     *)
(* number (at least two digits, three for values above 255):               *)
(* '280 -> 0x118' for 280.                                                 *)
C6_DocstringForm ==
    \A c \in Calls : \A i \in 1..Len(returned[c]) :
        /\ numbers[i] = 280 =>
              returned[c][i] =
                  <<"2", "8", "0", " ", Arrow, " ", "0", "x", "1", "1", "8">>
        /\ numbers[i] >= 0 => returned[c][i] = DocstringRecord(numbers[i])

(* C7: two calls on the same input sequence return identical sequences.    *)
C7_SameResultEveryCall ==
    \A c \in Calls : \A d \in Calls : returned[c] = returned[d]

(* Two calls on [-1, 280] have returned, each a list of two records.       *)
C7_Witness ==
    /\ numbers = <<-1, 280>>
    /\ Len(returned) = 2
    /\ Len(returned[1]) = 2
    /\ Len(returned[2]) = 2

(* Control is inside dec_to_hex_list. *)
InFunction == pc \in {"L6", "L7", "L8", "L9", "L13", "L15", "L20"}

(* C8: no step changes the list passed to dec_to_hex_list, and while       *)
(* control is inside the function a step changes nothing but the           *)
(* function's own locals.                                                  *)
C8_NoSideEffects ==
    [][/\ numbers' = numbers
       /\ InFunction => UNCHANGED <<driver, returned>>]_vars

(* A call on [-1, 280] has run to its return with the list as it was.      *)
C8_Witness ==
    /\ pc = "L22"
    /\ Len(result) = 2
    /\ numbers = <<-1, 280>>

(* One pass of the loop body of lines 8-20 on one element. *)
ElementRecord(v) ==
    IF Mod256(v) < 0 THEN NegativeRecord(Mod256(v))
    ELSE Record(Mod256(v), HexOf(Mod256(v)))

RECURSIVE InterleavedOutput(_, _)
(* What a loop that computes one record and prints it at once has written  *)
(* after going through nums, starting from the output out.                 *)
InterleavedOutput(nums, out) ==
    IF nums = <<>> THEN out
    ELSE InterleavedOutput(Tail(nums), Append(out, ElementRecord(Head(nums))))

(* C10: computing every record and then printing writes the same lines as  *)
(* computing and printing element by element; and, as written, no line is  *)
(* printed before every record has been computed.                          *)
C10_BatchEqualsInterleaved ==
    /\ Len(stdout) <= Len(numbers)
    /\ stdout = InterleavedOutput(SubSeq(numbers, 1, Len(stdout)), <<>>)
    /\ pc = "done" => stdout = InterleavedOutput(numbers, <<>>)
    /\ Len(stdout) > 0 =>
          /\ pc \in {"L31", "L32", "done"}
          /\ Len(returned) = 1
          /\ Len(ret) = Len(numbers)

(* The first of two lines has been printed, after the call returned both.  *)
C10_Witness ==
    /\ numbers = <<280, -1>>
    /\ pc = "L31"
    /\ Len(stdout) = 1
    /\ Len(ret) = 2

=============================================================================
